---- MODULE Spec2Model ----
(***************************************************************************)
(* Buddy allocator (buddy_init / buddy_malloc / buddy_free) with its       *)
(* packed two-bit state tree and its per-order free lists whose nodes live *)
(* inside the free blocks themselves.                                      *)
(*                                                                         *)
(* Addresses are absolute byte addresses.  The caller's buffer is a byte   *)
(* range; list nodes are read and written at 16-byte granules counted      *)
(* from alloc->base.  A tree word is a vector of 32 bits.                  *)
(***************************************************************************)
EXTENDS Integers, Sequences, FiniteSets, TLC

(* ----------------------------- configuration -------------------------- *)
MEM_BLOCK_LOG2 == 8
MAX_BLOCK_LOG2 == 8
MIN_BLOCK_LOG2 == 4

MAX_ORDER == MAX_BLOCK_LOG2 - MIN_BLOCK_LOG2

RECURSIVE Pow2(_)
Pow2(n) == IF n <= 0 THEN 1 ELSE 2 * Pow2(n - 1)

TOTAL_TREE_NODES == Pow2(MEM_BLOCK_LOG2 - MIN_BLOCK_LOG2 + 1) - 1
TRUNCATED_TREE_NODES == Pow2(MEM_BLOCK_LOG2 - MAX_BLOCK_LOG2) - 1
TREE_NODES == TOTAL_TREE_NODES - TRUNCATED_TREE_NODES
TREE_WORDS == (TREE_NODES + 31) \div 32

(* sizeof(buddy_page_t): two pointers of PointerBytes bytes each.          *)
PointerBytes == 8
NodeBytes == 2 * PointerBytes

(* sizeof(buddy_t) and _Alignof(buddy_t) on the LP64 layout: base, size,   *)
(* bit_tree[TREE_WORDS] padded to pointer alignment, free_lists.           *)
AlignofBuddy == PointerBytes
OffsetofFreeLists ==
    ((2 * PointerBytes + 4 * TREE_WORDS + PointerBytes - 1) \div PointerBytes)
        * PointerBytes
SizeofBuddy == OffsetofFreeLists + PointerBytes * (MAX_ORDER + 1)

(* Pointer values that are not block addresses.                            *)
NULL == 0
GARB == -2    \* indeterminate bytes: never written, or caller data
WILD == -3    \* a non-null pointer that addresses no list node

(* ------------------------- the modelled memory ------------------------- *)
(* Every address the allocator can compute stays below base + MemSpan: a   *)
(* block address XORed with a block size below 2^(MAX_BLOCK_LOG2 + 1).     *)
MemSpan == 2 * Pow2(MEM_BLOCK_LOG2)
NGranules == MemSpan \div NodeBytes
Granules == 0 .. (NGranules - 1)

(* bit_tree[w] for w >= TREE_WORDS lies behind the declared array: first    *)
(* the padding that precedes free_lists, then the free-list heads, whose   *)
(* low halves are the even words from HeadWord on (little-endian LP64).    *)
(* The node indices of the addresses above stay below 16 * (HeadWord + 1), *)
(* so no word after the low half of free_lists[0] is reached.              *)
HeadWord == (OffsetofFreeLists - 2 * PointerBytes) \div 4
WordIdx == 0 .. (HeadWord - 1)
BitIdx == 0 .. 31

(* ------------------------- 32-bit word arithmetic ---------------------- *)
(* the word holding the non-negative int n *)
PowTab == [i \in 0 .. 30 |-> Pow2(i)]
BV(n) == [i \in BitIdx |-> IF i < 31 THEN (n \div PowTab[i]) % 2 ELSE 0]
ShL(v, k) == [i \in BitIdx |-> IF i >= k THEN v[i - k] ELSE 0]
ShR(v, k) == [i \in BitIdx |-> IF i + k <= 31 THEN v[i + k] ELSE 0]
And32(a, b) == [i \in BitIdx |-> IF a[i] = 1 /\ b[i] = 1 THEN 1 ELSE 0]
Or32(a, b) == [i \in BitIdx |-> IF a[i] = 1 \/ b[i] = 1 THEN 1 ELSE 0]
Not32(a) == [i \in BitIdx |-> 1 - a[i]]
(* conversion of a word to uint8_t: its low eight bits                      *)
Low8(v) == [i \in BitIdx |-> IF i < 8 THEN v[i] ELSE 0]
ZeroWord == [i \in BitIdx |-> 0]
OnesWord == [i \in BitIdx |-> 1]

(* a ^ b on naturals *)
RECURSIVE Xor(_, _)
Xor(a, b) ==
    IF a = 0 THEN b
    ELSE IF b = 0 THEN a
    ELSE 2 * Xor(a \div 2, b \div 2) + (IF (a % 2) = (b % 2) THEN 0 ELSE 1)

(* the non-negative int a word holds *)
RECURSIVE WordVal(_, _)
WordVal(v, i) == IF i > 30 THEN 0 ELSE v[i] * PowTab[i] + WordVal(v, i + 1)

(* value of the low eight bits of a word *)
U8Val(v) ==
    v[0] + 2 * v[1] + 4 * v[2] + 8 * v[3] + 16 * v[4] + 32 * v[5]
         + 64 * v[6] + 128 * v[7]

(* ------------------------------ state ---------------------------------- *)
VARIABLES
    pc,      \* "uninit" before buddy_init, "ready" after it, "failed" when it
             \* returned NULL, "crashed" after a wild pointer was followed
    buf,     \* the caller's buffer: [start, length]
    alloc,   \* struct buddy: [base, size, bit_tree, free_lists]
    mem,     \* the list-node fields at each 16-byte granule from alloc.base
    live,    \* the caller's outstanding allocations: {[addr, len]}
    last,    \* what the latest facade call was given and what it returned
    snap,    \* the pool as it was before the latest buddy_malloc
    ops,     \* number of facade calls made so far
    scen     \* progress of the exhaustion scenario: [phase, first, second]

vars == <<pc, buf, alloc, mem, live, last, snap, ops, scen>>

(* A machine state the helpers work on. *)
Machine(a, m) == [alloc |-> a, mem |-> m, crashed |-> FALSE]
Crash(M) == [M EXCEPT !.crashed = TRUE]

(* The list node a pointer addresses, if it addresses one. *)
Valid(M, p) ==
    /\ p >= M.alloc.base
    /\ (p - M.alloc.base) % NodeBytes = 0
    /\ ((p - M.alloc.base) \div NodeBytes) \in Granules
Gran(M, p) == (p - M.alloc.base) \div NodeBytes

(* What a read of a pointer field yields: indeterminate bytes read as g. *)
Res(v, g) == IF v = GARB THEN g ELSE v

(* ------------------------------ geometry ------------------------------- *)
RECURSIVE get_order_from(_, _)
get_order_from(n, length) ==
    IF n < MIN_BLOCK_LOG2 THEN 0
    ELSE IF Pow2(n) <= length THEN n - MIN_BLOCK_LOG2
    ELSE get_order_from(n - 1, length)

get_order(length) == get_order_from(MAX_BLOCK_LOG2, length)

get_bit_tree_index(a, address, order) ==
    LET height == MEM_BLOCK_LOG2 - order - MIN_BLOCK_LOG2
        offset == (address - a.base) \div Pow2(MIN_BLOCK_LOG2 + order)
    IN  Pow2(height) - 1 + offset - TRUNCATED_TREE_NODES

(* a buddy computed with the block size of the order below *)
buddy_of_half(a, address, order) ==
    Xor(address - a.base, Pow2(order + MIN_BLOCK_LOG2 - 1)) + a.base

buddy_of(a, address, order) ==
    Xor(address - a.base, Pow2(order + MIN_BLOCK_LOG2)) + a.base

(* --------------------------- block-state tracker ----------------------- *)
(* alloc->bit_tree[w] as an lvalue *)
bit_tree_word(a, w) ==
    IF w < HeadWord THEN a.bit_tree[w]
    ELSE BV(a.free_lists[(w - HeadWord) \div 2])

bit_tree_store(M, w, v) ==
    IF w < HeadWord THEN [M EXCEPT !.alloc.bit_tree[w] = v]
    ELSE [M EXCEPT !.alloc.free_lists[(w - HeadWord) \div 2] = WordVal(v, 0)]

get_state(M, address, order) ==
    LET index == get_bit_tree_index(M.alloc, address, order)
        word_index == index \div 16
        word_offset == (index * 2) % 32
        state == Low8(ShR(bit_tree_word(M.alloc, word_index), word_offset))
    IN  U8Val(And32(state, BV(3)))

(* a write of the state bits that clears nothing first *)
set_state_unmasked(M, address, order, state) ==
    IF M.crashed THEN M
    ELSE
    LET index == get_bit_tree_index(M.alloc, address, order)
        word_index == index \div 16
        word_offset == (index * 2) % 32
        word == bit_tree_word(M.alloc, word_index)
    IN  bit_tree_store(M, word_index,
            Or32(word, ShL(BV(state), word_offset)))

set_state(M, address, order, state) ==
    IF M.crashed THEN M
    ELSE
    LET index == get_bit_tree_index(M.alloc, address, order)
        word_index == index \div 16
        word_offset == (index * 2) % 32
        mask == Not32(ShL(BV(3), word_offset))
        word == bit_tree_word(M.alloc, word_index)
    IN  bit_tree_store(M, word_index,
            Or32(And32(word, mask), ShL(BV(state), word_offset)))

(* ---------------------------- free-list manager ------------------------ *)
append(M, address, order) ==
    IF M.crashed THEN M
    ELSE
    LET head == M.alloc.free_lists[order]
    IN  IF head # NULL /\ ~Valid(M, head) THEN Crash(M)
        ELSE IF ~Valid(M, address) THEN Crash(M)
        ELSE
        LET mem1 == IF head # NULL
                    THEN [M.mem EXCEPT ![Gran(M, head)].prev = address]
                    ELSE M.mem
            mem2 == [mem1 EXCEPT ![Gran(M, address)] =
                        [prev |-> NULL, next |-> head]]
        IN  [M EXCEPT !.mem = mem2, !.alloc.free_lists[order] = address]

(* an unlink that leaves the prev field of the next member as it was *)
free_list_remove_forward(M, address, order, g) ==
    IF M.crashed THEN M
    ELSE IF ~Valid(M, address) THEN Crash(M)
    ELSE
    LET pprev == Res(M.mem[Gran(M, address)].prev, g)
        pnext == Res(M.mem[Gran(M, address)].next, g)
    IN  IF pprev # NULL /\ ~Valid(M, pprev) THEN Crash(M)
        ELSE
        LET mem1 == IF pprev # NULL
                    THEN [M.mem EXCEPT ![Gran(M, pprev)].next = pnext]
                    ELSE M.mem
            head == M.alloc.free_lists[order]
            fl1 == IF head = address
                   THEN [M.alloc.free_lists EXCEPT ![order] = pnext]
                   ELSE M.alloc.free_lists
            mem3 == [mem1 EXCEPT ![Gran(M, address)] =
                        [prev |-> NULL, next |-> NULL]]
        IN  [M EXCEPT !.mem = mem3, !.alloc.free_lists = fl1]

free_list_remove(M, address, order, g) ==
    IF M.crashed THEN M
    ELSE IF ~Valid(M, address) THEN Crash(M)
    ELSE
    LET pprev == Res(M.mem[Gran(M, address)].prev, g)
        pnext == Res(M.mem[Gran(M, address)].next, g)
    IN  IF pprev # NULL /\ ~Valid(M, pprev) THEN Crash(M)
        ELSE
        LET mem1 == IF pprev # NULL
                    THEN [M.mem EXCEPT ![Gran(M, pprev)].next = pnext]
                    ELSE M.mem
            head == M.alloc.free_lists[order]
            fl1 == IF head = address
                   THEN [M.alloc.free_lists EXCEPT ![order] = pnext]
                   ELSE M.alloc.free_lists
            M1 == [M EXCEPT !.mem = mem1, !.alloc.free_lists = fl1]
        IN  IF pnext # NULL /\ ~Valid(M, pnext) THEN Crash(M1)
            ELSE
            LET mem2 == IF pnext # NULL
                        THEN [mem1 EXCEPT ![Gran(M, pnext)].prev = pprev]
                        ELSE mem1
                mem3 == [mem2 EXCEPT ![Gran(M, address)] =
                            [prev |-> NULL, next |-> NULL]]
            IN  [M1 EXCEPT !.mem = mem3]

(* ---------------------------- split / merge ---------------------------- *)
(* one pass of the loop body of split_partition, up to the two appends *)
split_step(M, order, g) ==
    LET address == M.alloc.free_lists[order]
        buddy_address == buddy_of(M.alloc, address, order - 1)
    IN  append(
            append(
                set_state(free_list_remove(M, address, order, g),
                          address, order, 1),
                address, order - 1),
            buddy_address, order - 1)

RECURSIVE split_partition(_, _, _, _)
split_rest(M4, order, target, g) ==
    IF order = target
    THEN [M |-> M4, ret |-> order]
    ELSE split_partition(M4, order, target, g)

split_partition(M, order, target, g) ==
    IF M.crashed \/ ~(order > target)
    THEN [M |-> M, ret |-> MAX_ORDER + 1]
    ELSE IF ~Valid(M, M.alloc.free_lists[order])
    THEN [M |-> Crash(M), ret |-> MAX_ORDER + 1]
    ELSE split_rest(split_step(M, order, g), order - 1, target, g)

RECURSIVE merge_loop(_, _, _, _, _)
merge_loop(M, address, buddy_address, order, g) ==
    IF M.crashed THEN M
    ELSE IF order < MAX_ORDER
    THEN
        LET M1 == set_state(M, address, order, 0)
            M2 == free_list_remove(M1, buddy_address, order, g)
            M3 == set_state(M2, address, order + 1, 0)
            next_buddy == buddy_of(M.alloc, address, order + 1)
            buddy_state == get_state(M3, next_buddy, order + 1)
        IN  IF buddy_state # 0
            THEN append(M3, address, order + 1)
            ELSE merge_loop(M3, address, next_buddy, order + 1, g)
    ELSE append(M, address, order)

(* ------------------------------- facade -------------------------------- *)
(* a first loop that hands the free memory out in smallest blocks only *)
RECURSIVE init_free_smallest(_, _, _)
init_free_smallest(M, address, length) ==
    IF length >= Pow2(MIN_BLOCK_LOG2)
    THEN init_free_smallest(append(M, address, 0),
                            address + Pow2(MIN_BLOCK_LOG2),
                            length - Pow2(MIN_BLOCK_LOG2))
    ELSE [M |-> M, address |-> address]

(* first loop of buddy_init: the free memory goes to the free lists        *)
RECURSIVE init_free(_, _, _)
init_free(M, address, length) ==
    IF length >= Pow2(MIN_BLOCK_LOG2)
    THEN LET order == get_order(length)
             partition_size == Pow2(order + MIN_BLOCK_LOG2)
         IN  init_free(append(M, address, order),
                       address + partition_size, length - partition_size)
    ELSE [M |-> M, address |-> address]

(* second loop of buddy_init: the descriptor's bytes are marked reserved   *)
RECURSIVE init_reserve(_, _, _)
init_reserve(M, address, used) ==
    IF used >= Pow2(MIN_BLOCK_LOG2)
    THEN LET order == get_order(used)
             partition_size == Pow2(order + MIN_BLOCK_LOG2)
         IN  init_reserve(set_state(M, address, order, 3),
                          address + partition_size, used - partition_size)
    ELSE M

init_pad(start) == (AlignofBuddy - (start % AlignofBuddy)) % AlignofBuddy

(* a size check that forgets the padding already taken from the length *)
init_fails_unpadded(start, length) == length < SizeofBuddy

(* buddy_init returns NULL *)
init_fails(start, length) ==
    \/ length < init_pad(start)
    \/ length - init_pad(start) < SizeofBuddy

(* the pool buddy_init builds in a buffer whose bytes behind the declared   *)
(* tree words hold the pattern behind                                       *)
buddy_init(start, length, behind) ==
    LET pad == init_pad(start)
        base == start + pad + SizeofBuddy
        len == length - pad - SizeofBuddy
        a0 == [base |-> base,
               size |-> len,
               bit_tree |-> [w \in WordIdx |->
                                IF w < TREE_WORDS THEN ZeroWord ELSE behind],
               free_lists |-> [o \in 0 .. MAX_ORDER |-> NULL]]
        M0 == Machine(a0, [k \in Granules |-> [prev |-> GARB, next |-> GARB]])
        F == init_free(M0, base, len)
    IN  init_reserve(F.M, F.address, pad + SizeofBuddy)

(* buddy_malloc once it has a free block of the wanted order at the head  *)
take_head(M, order, from, g) ==
    [M |-> set_state(free_list_remove(M, M.alloc.free_lists[order], order, g),
                     M.alloc.free_lists[order], order, 2),
     ret |-> M.alloc.free_lists[order], order |-> order, from |-> from,
     err |-> "none"]

(* buddy_malloc after split_partition returned S *)
after_split(S, order, from, g) ==
    IF S.ret = MAX_ORDER + 1
    THEN [M |-> S.M, ret |-> NULL, order |-> order, from |-> from,
          err |-> "split_failed"]
    ELSE take_head(S.M, S.ret, from, g)

(* a size check that lets sizes up to twice the largest block through *)
too_large_doubled(length) == length > 2 * Pow2(MAX_BLOCK_LOG2)

(* the size check buddy_malloc starts with *)
too_large(length) == length > Pow2(MAX_BLOCK_LOG2)

(* a search for a larger block that passes over the next order *)
larger_free_skipping(M, order) ==
    {i \in (order + 2) .. MAX_ORDER : M.alloc.free_lists[i] # NULL}

(* the orders above order whose free list is not empty *)
larger_free(M, order) ==
    {i \in (order + 1) .. MAX_ORDER : M.alloc.free_lists[i] # NULL}

first_of(S) == CHOOSE x \in S : \A y \in S : x <= y

buddy_malloc(M, length, g) ==
    IF too_large(length)
    THEN [M |-> M, ret |-> NULL, order |-> 0, from |-> 0, err |-> "too_large"]
    ELSE IF M.alloc.free_lists[get_order(length)] # NULL
    THEN take_head(M, get_order(length), get_order(length), g)
    ELSE IF larger_free(M, get_order(length)) # {}
    THEN after_split(
            split_partition(M, first_of(larger_free(M, get_order(length))),
                            get_order(length), g),
            get_order(length), first_of(larger_free(M, get_order(length))), g)
    ELSE [M |-> M, ret |-> NULL, order |-> get_order(length), from |-> 0,
          err |-> "no_memory"]

buddy_free(M, address, length, g) ==
    LET order == get_order(length)
        buddy_address == buddy_of(M.alloc, address, order)
        buddy_state == get_state(M, buddy_address, order)
    IN  IF buddy_state = 1 \/ buddy_state = 2 \/ buddy_state = 3
        THEN set_state(append(M, address, order), address, order, 0)
        ELSE merge_loop(M, address, buddy_address, order, g)

(* --------------------------- what a caller sees ------------------------ *)
BlockSize(o) == Pow2(o + MIN_BLOCK_LOG2)

(* the members of free_lists[o], head first, following the next fields *)
RECURSIVE list_walk(_, _, _, _)
list_walk(a, m, p, fuel) ==
    IF fuel = 0 \/ p = NULL \/ p < a.base \/ (p - a.base) % NodeBytes # 0
       \/ ((p - a.base) \div NodeBytes) \notin Granules
    THEN <<>>
    ELSE <<p>> \o list_walk(a, m, m[(p - a.base) \div NodeBytes].next, fuel - 1)

ListOf(a, m, o) == list_walk(a, m, a.free_lists[o], NGranules)
FreeSet(a, m, o) == {ListOf(a, m, o)[i] : i \in 1 .. Len(ListOf(a, m, o))}

(* the state of tree node n, read the way get_state reads it *)
NodeState(a, n) ==
    U8Val(And32(Low8(ShR(a.bit_tree[n \div 16], (n * 2) % 32)), BV(3)))

NodeIdx == 0 .. (TREE_NODES - 1)

Snapshot(a, m) ==
    [free |-> [o \in 0 .. MAX_ORDER |-> FreeSet(a, m, o)],
     tree |-> [n \in NodeIdx |-> NodeState(a, n)]]

NoSnapshot ==
    [free |-> [o \in 0 .. MAX_ORDER |-> {}], tree |-> [n \in NodeIdx |-> 0]]

(* ------------------------------ inputs --------------------------------- *)
MaxOps == 4
MaxLive == 3

BufStarts == {4096, 4097}
BufLens == {60, 64, 71, 128, 320, 416}
BehindWords == {ZeroWord, OnesWord}
ReqSizes == {8, 16, 24, 32, 64, 128, 256, 257}
Reads == {NULL, WILD}

NoCall ==
    [op |-> "none", len |-> 0, addr |-> NULL, order |-> 0, from |-> 0,
     blk |-> NULL, err |-> "none", rt |-> FALSE, prior |-> {}]

NoAlloc ==
    [base |-> 0, size |-> 0,
     bit_tree |-> [w \in WordIdx |-> ZeroWord],
     free_lists |-> [o \in 0 .. MAX_ORDER |-> NULL]]

NoScenario == [phase |-> "fresh", first |-> "none", second |-> "none"]

(* ------------------------------ actions -------------------------------- *)
Init ==
    /\ pc = "uninit"
    /\ buf = [start |-> 0, length |-> 0]
    /\ alloc = NoAlloc
    /\ mem = [k \in Granules |-> [prev |-> GARB, next |-> GARB]]
    /\ live = {}
    /\ last = NoCall
    /\ snap = NoSnapshot
    /\ ops = 0
    /\ scen = NoScenario

BuddyInitFail(start, length) ==
    /\ pc = "uninit"
    /\ init_fails(start, length)
    /\ pc' = "failed"
    /\ buf' = [start |-> start, length |-> length]
    /\ last' = [NoCall EXCEPT !.op = "init", !.len = length, !.err = "too_small"]
    /\ UNCHANGED <<alloc, mem, live, snap, ops, scen>>

BuddyInit(start, length, behind) ==
    /\ pc = "uninit"
    /\ ~init_fails(start, length)
    /\ LET M == buddy_init(start, length, behind)
       IN  /\ alloc' = M.alloc
           /\ mem' = M.mem
           /\ pc' = IF M.crashed THEN "crashed" ELSE "ready"
    /\ buf' = [start |-> start, length |-> length]
    /\ last' = [NoCall EXCEPT !.op = "init", !.len = length]
    /\ UNCHANGED <<live, snap, ops, scen>>

(* one call of buddy_malloc by the caller, who keeps what it was given *)
MallocReturns(R, length) ==
    /\ alloc' = R.M.alloc
    /\ mem' = R.M.mem
    /\ pc' = IF R.M.crashed THEN "crashed" ELSE "ready"
    /\ live' = IF R.ret # NULL /\ ~R.M.crashed
               THEN live \cup {[addr |-> R.ret, len |-> length]}
               ELSE live
    /\ last' = [op |-> "malloc", len |-> length, addr |-> R.ret,
                order |-> R.order, from |-> R.from,
                blk |-> IF R.err \in {"too_large", "no_memory"}
                        THEN NULL ELSE alloc.free_lists[R.from],
                err |-> R.err, rt |-> FALSE, prior |-> live]

CallMalloc(length, g) ==
    /\ pc = "ready"
    /\ MallocReturns(buddy_malloc(Machine(alloc, mem), length, g), length)
    /\ snap' = Snapshot(alloc, mem)
    /\ ops' = ops + 1
    /\ UNCHANGED buf

(* one call of buddy_free with an outstanding allocation and its size *)
FreeReturns(M, b, rt) ==
    /\ alloc' = M.alloc
    /\ mem' = M.mem
    /\ pc' = IF M.crashed THEN "crashed" ELSE "ready"
    /\ last' = [op |-> "free", len |-> b.len, addr |-> b.addr,
                order |-> get_order(b.len), from |-> last.from,
                blk |-> last.blk, err |-> "none", rt |-> rt,
                prior |-> live]
    /\ snap' = IF rt THEN snap ELSE NoSnapshot

CallFree(b, g) ==
    /\ pc = "ready"
    /\ b \in live
    /\ FreeReturns(buddy_free(Machine(alloc, mem), b.addr, b.len, g), b,
                   last.op = "malloc" /\ last.addr = b.addr /\ last.len = b.len)
    /\ live' = live \ {b}
    /\ ops' = ops + 1
    /\ UNCHANGED buf

Malloc(length, g) ==
    /\ ops < MaxOps
    /\ Cardinality(live) < MaxLive
    /\ CallMalloc(length, g)
    /\ UNCHANGED scen

Free(b, g) ==
    /\ ops < MaxOps
    /\ CallFree(b, g)
    /\ UNCHANGED scen

(* the caller stores len bytes at the address buddy_malloc gave it *)
Written(a, m, b) ==
    [k \in Granules |->
        LET lo == a.base + k * NodeBytes
            mid == lo + PointerBytes
            hi == lo + NodeBytes
        IN  [prev |-> IF b.addr < mid /\ lo < b.addr + b.len
                      THEN GARB ELSE m[k].prev,
             next |-> IF b.addr < hi /\ mid < b.addr + b.len
                      THEN GARB ELSE m[k].next]]

CallerWrite(b) ==
    /\ pc = "ready"
    /\ ops < MaxOps
    /\ b \in live
    /\ mem' = Written(alloc, mem, b)
    /\ mem' # mem
    /\ last' = [NoCall EXCEPT !.op = "write", !.len = b.len, !.addr = b.addr]
    /\ snap' = NoSnapshot
    /\ ops' = ops + 1
    /\ UNCHANGED <<pc, buf, alloc, live, scen>>

Next ==
    \/ \E s \in BufStarts, n \in BufLens : BuddyInitFail(s, n)
    \/ \E s \in BufStarts, n \in BufLens, w \in BehindWords : BuddyInit(s, n, w)
    \/ \E n \in ReqSizes, g \in Reads : Malloc(n, g)
    \/ \E b \in live, g \in Reads : Free(b, g)
    \/ \E b \in live : CallerWrite(b)

Spec == Init /\ [][Next]_vars

(* ----------------------- the exhaustion scenario ----------------------- *)
(* The smallest block size is requested until buddy_malloc returns NULL,   *)
(* one of the blocks is given back, and the size is requested twice more.  *)
Outcome == IF last'.addr # NULL THEN "block" ELSE last'.err

Fill(g) ==
    /\ scen.phase = "fresh"
    /\ CallMalloc(BlockSize(0), g)
    /\ scen' = IF last'.addr = NULL
               THEN [scen EXCEPT !.phase = "full"] ELSE scen

ReleaseOne(b, g) ==
    /\ scen.phase = "full"
    /\ CallFree(b, g)
    /\ scen' = [scen EXCEPT !.phase = "released"]

AllocAgain(g) ==
    /\ scen.phase = "released"
    /\ CallMalloc(BlockSize(0), g)
    /\ scen' = [scen EXCEPT !.phase = "again", !.first = Outcome]

AllocOnceMore(g) ==
    /\ scen.phase = "again"
    /\ CallMalloc(BlockSize(0), g)
    /\ scen' = [scen EXCEPT !.phase = "done", !.second = Outcome]

NextExhaust ==
    \/ \E s \in BufStarts, n \in BufLens : BuddyInitFail(s, n)
    \/ \E s \in BufStarts, n \in BufLens, w \in BehindWords : BuddyInit(s, n, w)
    \/ \E g \in Reads : Fill(g)
    \/ \E b \in live, g \in Reads : ReleaseOne(b, g)
    \/ \E g \in Reads : AllocAgain(g)
    \/ \E g \in Reads : AllocOnceMore(g)

SpecExhaust == Init /\ [][NextExhaust]_vars

(* --------------------------- the long run ------------------------------ *)
(* A caller that asks for the two medium block sizes only, followed for    *)
(* one call more than the callers of Spec.                                 *)
MaxLongOps == 5
LongSizes == {64, 128}

LongMalloc(length, g) ==
    /\ ops < MaxLongOps
    /\ Cardinality(live) < MaxLive
    /\ CallMalloc(length, g)
    /\ UNCHANGED scen

LongFree(b, g) ==
    /\ ops < MaxLongOps
    /\ CallFree(b, g)
    /\ UNCHANGED scen

NextLong ==
    \/ \E s \in BufStarts, n \in BufLens : BuddyInitFail(s, n)
    \/ \E s \in BufStarts, n \in BufLens, w \in BehindWords : BuddyInit(s, n, w)
    \/ \E n \in LongSizes, g \in Reads : LongMalloc(n, g)
    \/ \E b \in live, g \in Reads : LongFree(b, g)

SpecLong == Init /\ [][NextLong]_vars

(* ------------------------ the small-block run -------------------------- *)
(* A caller that asks for blocks of the smallest size only and holds up to *)
(* MaxSmallLive of them, long enough for a free list to get three members. *)
MaxSmallOps == 9
MaxSmallLive == 6
SmallSizes == {BlockSize(0)}

SmallMalloc(length, g) ==
    /\ ops < MaxSmallOps
    /\ Cardinality(live) < MaxSmallLive
    /\ CallMalloc(length, g)
    /\ UNCHANGED scen

SmallFree(b, g) ==
    /\ ops < MaxSmallOps
    /\ CallFree(b, g)
    /\ UNCHANGED scen

NextSmall ==
    \/ \E s \in BufStarts, n \in BufLens : BuddyInitFail(s, n)
    \/ \E s \in BufStarts, n \in BufLens, w \in BehindWords : BuddyInit(s, n, w)
    \/ \E n \in SmallSizes, g \in Reads : SmallMalloc(n, g)
    \/ \E b \in live, g \in Reads : SmallFree(b, g)

SpecSmall == Init /\ [][NextSmall]_vars

(* ------------------------- notions of the claims ----------------------- *)
(* orderFor(size): the smallest order whose block holds size bytes *)
OrderFor(size) ==
    CHOOSE o \in 0 .. MAX_ORDER :
        /\ BlockSize(o) >= size
        /\ \A q \in 0 .. MAX_ORDER : BlockSize(q) >= size => o <= q

Disjoint(a1, n1, a2, n2) == a1 + n1 <= a2 \/ a2 + n2 <= a1

(* the block (address, order) a tree node stands for *)
NodeHeight(n) == CHOOSE h \in 0 .. (MEM_BLOCK_LOG2 - MIN_BLOCK_LOG2) :
    Pow2(h) - 1 <= n + TRUNCATED_TREE_NODES
        /\ n + TRUNCATED_TREE_NODES < Pow2(h + 1) - 1
NodeOrder(n) == MEM_BLOCK_LOG2 - MIN_BLOCK_LOG2 - NodeHeight(n)
NodeAddr(a, n) ==
    a.base + (n + TRUNCATED_TREE_NODES - (Pow2(NodeHeight(n)) - 1))
                * BlockSize(NodeOrder(n))

FreeEntries == {e \in (0 .. MAX_ORDER) \X {alloc.base + k * NodeBytes : k \in Granules} :
                    e[2] \in FreeSet(alloc, mem, e[1])}
AllocatedBlocks == {<<get_order(b.len), b.addr>> : b \in live}
ReservedBlocks == {<<NodeOrder(n), NodeAddr(alloc, n)>> :
                      n \in {x \in NodeIdx : NodeState(alloc, x) = 3}}

(* the bytes buddy_init put on the free lists: [base, ManagedEnd) *)
ManagedEnd == alloc.base + (alloc.size - (alloc.size % BlockSize(0)))

(* C1: a successful allocate(s), 1 <= s <= blockSize(MAX_ORDER), hands out
   a block of order orderFor(s), so a block of at least s bytes. *)
C1_RoundsUp ==
    (pc = "ready" /\ last.op = "malloc" /\ last.addr # NULL
        /\ 1 <= last.len /\ last.len <= BlockSize(MAX_ORDER))
    => (last.order = OrderFor(last.len) /\ BlockSize(last.order) >= last.len)

(* C2: allocated and reserved blocks never intersect a free-list block, and
   no two free-list entries intersect. *)
C2_NoOverlap ==
    pc = "ready" =>
        /\ \A e \in FreeEntries, f \in FreeEntries :
              e # f => Disjoint(e[2], BlockSize(e[1]), f[2], BlockSize(f[1]))
        /\ \A h \in AllocatedBlocks \cup ReservedBlocks, e \in FreeEntries :
              Disjoint(h[2], BlockSize(h[1]), e[2], BlockSize(e[1]))

(* C3: the range [addr, addr + blockSize(orderFor(s))) a successful
   allocate(s) returns is disjoint from the range of every block allocated
   earlier and not yet released. *)
C3_LiveDisjoint ==
    (pc = "ready" /\ last.op = "malloc" /\ last.addr # NULL) =>
        \A b \in last.prior :
            Disjoint(last.addr, BlockSize(OrderFor(last.len)),
                     b.addr, BlockSize(OrderFor(b.len)))

(* C4: every block allocate returns, and every free-list entry, lies inside
   the bytes buddy_init placed on the free lists. *)
C4_InsidePool ==
    pc = "ready" =>
        /\ (last.op = "malloc" /\ last.addr # NULL) =>
              (last.addr >= alloc.base
                  /\ last.addr + BlockSize(last.order) <= ManagedEnd)
        /\ \A e \in FreeEntries :
              e[2] >= alloc.base /\ e[2] + BlockSize(e[1]) <= ManagedEnd

(* C5: a block is on free_lists[order] iff its tree state is free and it is
   an existing unsplit block; no member is allocated, split or reserved, and
   every allocated block has state allocated. *)
C5_TrackerAgrees ==
    pc = "ready" =>
        /\ \A e \in FreeEntries :
              get_state(Machine(alloc, mem), e[2], e[1]) = 0
        /\ \A h \in AllocatedBlocks :
              get_state(Machine(alloc, mem), h[2], h[1]) = 2
        /\ \A n \in NodeIdx :
              (/\ n > 0
               /\ NodeState(alloc, n) = 0
               /\ NodeState(alloc, (n - 1) \div 2) = 1)
              => <<NodeOrder(n), NodeAddr(alloc, n)>> \in FreeEntries

(* C6: allocate(s) immediately followed by release(addr, s) leaves every
   free list's entries and every tree node's state as before the allocate. *)
C6_RoundTrip ==
    (pc = "ready" /\ last.op = "free" /\ last.rt)
    => Snapshot(alloc, mem) = snap

(* the pool after two outstanding blocks are released, x first *)
FreeBoth(x, y) ==
    buddy_free(buddy_free(Machine(alloc, mem), x.addr, x.len, NULL),
               y.addr, y.len, NULL)

SnapshotOf(M) == Snapshot(M.alloc, M.mem)

Siblings(x, y) ==
    /\ x # y
    /\ get_order(x.len) = get_order(y.len)
    /\ get_order(x.len) < MAX_ORDER
    /\ y.addr = buddy_of(alloc, x.addr, get_order(x.len))

(* C7: releasing two allocated sibling blocks one after the other gives the
   same free lists and the same tree states whichever goes first. *)
C7_MergeDeterminism ==
    pc = "ready" =>
        \A x \in live, y \in live :
            Siblings(x, y) => SnapshotOf(FreeBoth(x, y)) = SnapshotOf(FreeBoth(y, x))

(* the tree nodes of the blocks inside block (address, order) *)
NodesUnder(address, order) ==
    {n \in NodeIdx :
        /\ NodeOrder(n) <= order
        /\ NodeAddr(alloc, n) >= address
        /\ NodeAddr(alloc, n) + BlockSize(NodeOrder(n))
              <= address + BlockSize(order)}

(* C8: a free block of order o split by an allocation of order t < o is,
   once the allocated piece is released, again one free block of order o at
   its address, with none of its pieces on a lower list and every node under
   it free. *)
C8_SplitMergeInverse ==
    (pc = "ready" /\ last.op = "free" /\ last.rt /\ last.from > last.order) =>
        /\ <<last.from, last.blk>> \in FreeEntries
        /\ \A e \in FreeEntries :
              e[1] < last.from =>
                  Disjoint(e[2], BlockSize(e[1]), last.blk, BlockSize(last.from))
        /\ \A n \in NodesUnder(last.blk, last.from) : NodeState(alloc, n) = 0

(* C9: after the smallest size was allocated until OutOfMemory and one block
   was released, the next allocate succeeds and the one after it fails with
   OutOfMemory. *)
C9_Exhaustion ==
    (pc = "ready" /\ scen.phase = "done") =>
        (scen.first = "block" /\ scen.second = "no_memory")

(* C10: allocate(s) with s > blockSize(MAX_ORDER) fails and changes neither
   a free list nor a tree node, whatever the state. *)
C10_TooLargeRejected ==
    [][(last'.op = "malloc" /\ ops' = ops + 1
            /\ last'.len > BlockSize(MAX_ORDER))
        => (/\ last'.addr = NULL
            /\ last'.err = "too_large"
            /\ alloc' = alloc
            /\ mem' = mem
            /\ live' = live
            /\ pc' = pc)]_vars

C10_Witness ==
    /\ last.op = "malloc"
    /\ last.len > BlockSize(MAX_ORDER)
    /\ live # {}
    /\ \E o \in 0 .. MAX_ORDER : alloc.free_lists[o] # NULL

(* ------------------- steps of the facade, as the claims see them ------- *)
(* this step is a buddy_malloc call with a size allocate accepts *)
MallocStep ==
    /\ last'.op = "malloc"
    /\ ops' = ops + 1
    /\ 1 <= last'.len
    /\ last'.len <= BlockSize(MAX_ORDER)

(* this step is a buddy_free call *)
FreeStep == last'.op = "free" /\ ops' = ops + 1

(* the orders from o up whose free list is not empty *)
NonEmptyFrom(o) == {i \in o .. MAX_ORDER : alloc.free_lists[i] # NULL}

(* C11: allocate(s) for a valid size with every free list of the orders
   orderFor(s) .. MAX_ORDER empty fails with OutOfMemory and changes neither
   a free list nor a tree node. *)
C11_OutOfMemoryUnchanged ==
    [][(MallocStep /\ NonEmptyFrom(OrderFor(last'.len)) = {})
        => (/\ last'.addr = NULL
            /\ last'.err = "no_memory"
            /\ alloc' = alloc
            /\ mem' = mem)]_vars

(* the same for the sizes that are a block size *)
C11_PowerOfTwoSizes ==
    [][(MallocStep /\ NonEmptyFrom(OrderFor(last'.len)) = {}
            /\ last'.len = BlockSize(OrderFor(last'.len)))
        => (/\ last'.addr = NULL
            /\ last'.err = "no_memory"
            /\ alloc' = alloc
            /\ mem' = mem)]_vars

(* C12: every buddy_malloc call for a valid size that returns to its caller
   returns a block whenever some free list of the orders orderFor(s) ..
   MAX_ORDER is not empty; it reports OutOfMemory only when all of them are
   empty and never reports a failed split. *)
C12_NoSpuriousFailure ==
    [][(MallocStep /\ pc' = "ready")
        => (/\ NonEmptyFrom(OrderFor(last'.len)) # {} => last'.addr # NULL
            /\ last'.err = "no_memory"
                => NonEmptyFrom(OrderFor(last'.len)) = {}
            /\ last'.err # "split_failed")]_vars

(* a block was returned after a larger free block was split for it *)
C12_Witness ==
    /\ pc = "ready"
    /\ last.op = "malloc"
    /\ last.addr # NULL
    /\ last.from > last.order + 1
    /\ last.len # BlockSize(last.order)

(* this step is the buddy_init call *)
InitStep == pc = "uninit" /\ last'.op = "init"

(* the bytes from start to the next address aligned for the descriptor *)
PaddingOf(start) ==
    CHOOSE p \in 0 .. (AlignofBuddy - 1) : (start + p) % AlignofBuddy = 0

(* C13: init fails exactly when the length is below the alignment padding
   plus the descriptor size, and then writes nothing and creates no pool;
   otherwise the descriptor sits at the padded start, base is the first byte
   after it and size is the length that remains. *)
C13_InitOutcome ==
    [][InitStep
        => IF buf'.length < PaddingOf(buf'.start) + SizeofBuddy
           THEN /\ pc' = "failed"
                /\ alloc' = alloc
                /\ mem' = mem
           ELSE /\ pc' = "ready"
                /\ alloc'.base = buf'.start + PaddingOf(buf'.start) + SizeofBuddy
                /\ alloc'.size =
                      buf'.length - PaddingOf(buf'.start) - SizeofBuddy]_vars

(* init failed for a buffer that holds the descriptor but not the padding too *)
C13_Witness ==
    /\ pc = "failed"
    /\ last.op = "init"
    /\ buf.length >= SizeofBuddy
    /\ PaddingOf(buf.start) > 0

(* the largest order whose block fits into rem bytes *)
LargestFit(rem) ==
    CHOOSE o \in 0 .. MAX_ORDER :
        /\ BlockSize(o) <= rem
        /\ \A q \in 0 .. MAX_ORDER : BlockSize(q) <= rem => q <= o

(* the largest-fit-first decomposition of rem bytes starting at address at *)
RECURSIVE Decomposition(_, _)
Decomposition(at, rem) ==
    IF rem < BlockSize(0) THEN {}
    ELSE {<<LargestFit(rem), at>>}
            \cup Decomposition(at + BlockSize(LargestFit(rem)),
                               rem - BlockSize(LargestFit(rem)))

RECURSIVE SumSizes(_)
SumSizes(S) ==
    IF S = {} THEN 0
    ELSE LET e == CHOOSE x \in S : TRUE
         IN  BlockSize(e[1]) + SumSizes(S \ {e})

(* the pool as buddy_init has just left it *)
AfterInit == pc = "ready" /\ last.op = "init"

(* C14: after a successful init the free lists hold exactly the blocks of
   the largest-fit-first decomposition of the usable length: contiguous from
   base, pairwise disjoint, each aligned to its size relative to base, summing
   to the length less its remainder below the smallest block, which is in no
   list. *)
C14_GreedyDecomposition ==
    AfterInit =>
        /\ FreeEntries = Decomposition(alloc.base, alloc.size)
        /\ \A o \in 0 .. MAX_ORDER :
              Len(ListOf(alloc, mem, o)) = Cardinality(FreeSet(alloc, mem, o))
        /\ \A e \in FreeEntries :
              /\ (e[2] - alloc.base) % BlockSize(e[1]) = 0
              /\ e[2] + BlockSize(e[1]) <= ManagedEnd
              /\ \/ e[2] = alloc.base
                 \/ \E f \in FreeEntries : f[2] + BlockSize(f[1]) = e[2]
        /\ \A e \in FreeEntries, f \in FreeEntries :
              e # f => Disjoint(e[2], BlockSize(e[1]), f[2], BlockSize(f[1]))
        /\ SumSizes(FreeEntries) = alloc.size - (alloc.size % BlockSize(0))

(* init has left several blocks and an unmanaged remainder *)
C14_Witness ==
    /\ AfterInit
    /\ alloc.size % BlockSize(0) # 0
    /\ Cardinality(FreeEntries) >= 3

(* the nodes buddy_init has marked reserved *)
ReservedNodes == {n \in NodeIdx : NodeState(alloc, n) = 3}

(* C15: after a successful init every tree node is free or reserved, the
   reserved nodes are nodes over the bytes of the padding and the descriptor,
   and no reserved node covers memory that is on a free list. *)
C15_InitTreeStates ==
    AfterInit =>
        /\ \A n \in NodeIdx : NodeState(alloc, n) \in {0, 3}
        /\ \A n \in ReservedNodes :
              ~Disjoint(NodeAddr(alloc, n), BlockSize(NodeOrder(n)),
                        buf.start, alloc.base - buf.start)
        /\ \A n \in ReservedNodes, e \in FreeEntries :
              Disjoint(NodeAddr(alloc, n), BlockSize(NodeOrder(n)),
                       e[2], BlockSize(e[1]))

(* the last part alone: no reserved node over free-list memory *)
C15_ReservedOffFreeMemory ==
    AfterInit =>
        \A n \in ReservedNodes, e \in FreeEntries :
            Disjoint(NodeAddr(alloc, n), BlockSize(NodeOrder(n)),
                     e[2], BlockSize(e[1]))

(* C16: after every completed allocate or release no two buddies of an order
   below MAX_ORDER are both members of that order's free list. *)
C16_MaximalCoalescing ==
    (pc = "ready" /\ last.op \in {"malloc", "free"}) =>
        \A o \in 0 .. (MAX_ORDER - 1) :
            \A a \in FreeSet(alloc, mem, o) :
                buddy_of(alloc, a, o) \notin FreeSet(alloc, mem, o)

(* the state buddy_free reads for the buddy of the block it is given *)
BuddyStateSeen(address, length) ==
    get_state(Machine(alloc, mem),
              buddy_of(alloc, address, get_order(length)), get_order(length))

(* this step is a buddy_free call that found the buddy split, allocated or
   reserved and returned *)
NoMergeStep ==
    /\ FreeStep
    /\ pc' = "ready"
    /\ BuddyStateSeen(last'.addr, last'.len) \in {1, 2, 3}

(* C17: a release that finds the buddy split, allocated or reserved merges
   nothing: the block becomes the head of its order's free list in front of
   the previous members, its node becomes free, and no other free list and no
   other tree node changes. *)
C17_NoMergeFrame ==
    [][NoMergeStep
        => (/\ alloc'.free_lists[last'.order] = last'.addr
            /\ ListOf(alloc', mem', last'.order)
                  = <<last'.addr>> \o ListOf(alloc, mem, last'.order)
            /\ \A o \in 0 .. MAX_ORDER :
                  o # last'.order
                      => ListOf(alloc', mem', o) = ListOf(alloc, mem, o)
            /\ get_state(Machine(alloc', mem'), last'.addr, last'.order) = 0
            /\ \A n \in NodeIdx :
                  n # get_bit_tree_index(alloc, last'.addr, last'.order)
                      => NodeState(alloc', n) = NodeState(alloc, n))]_vars

(* the free-list entries whose block contains block (address, order) *)
FreeOver(address, order) ==
    {e \in FreeEntries :
        /\ e[1] >= order
        /\ e[2] <= address
        /\ address + BlockSize(order) <= e[2] + BlockSize(e[1])}

(* C18: every release ends with the final, possibly merged, block on the
   free list of its order and marked free; a released block of order MAX_ORDER
   is itself on free_lists[MAX_ORDER] with state free. *)
C18_ReleaseEndsFree ==
    (pc = "ready" /\ last.op = "free") =>
        /\ \E e \in FreeOver(last.addr, last.order) :
              get_state(Machine(alloc, mem), e[2], e[1]) = 0
        /\ last.order = MAX_ORDER =>
              /\ last.addr \in FreeSet(alloc, mem, MAX_ORDER)
              /\ get_state(Machine(alloc, mem), last.addr, MAX_ORDER) = 0

(* the part about blocks of order MAX_ORDER alone *)
C18_LargestBlockFree ==
    (pc = "ready" /\ last.op = "free" /\ last.order = MAX_ORDER) =>
        /\ last.addr \in FreeSet(alloc, mem, MAX_ORDER)
        /\ get_state(Machine(alloc, mem), last.addr, MAX_ORDER) = 0

(* C19: a merge carries the parent block, at the lower buddy's address, to
   the next order, so every free-list entry and every allocated block lies at
   a multiple of its block size from base. *)
C19_BlocksAligned ==
    pc = "ready" =>
        \A e \in FreeEntries \cup AllocatedBlocks :
            (e[2] - alloc.base) % BlockSize(e[1]) = 0

(* what C20 states of a buddy_malloc call that returned a block for a size
   whose order is t *)
BestFitTaken(t) ==
    IF alloc.free_lists[t] # NULL
    THEN /\ last'.addr = alloc.free_lists[t]
         /\ last'.from = t
         /\ \A o \in 0 .. MAX_ORDER :
               o # t => ListOf(alloc', mem', o) = ListOf(alloc, mem, o)
    ELSE /\ last'.from = first_of(NonEmptyFrom(t + 1))
         /\ last'.blk = alloc.free_lists[first_of(NonEmptyFrom(t + 1))]
         /\ \A o \in 0 .. MAX_ORDER :
               (o > last'.from \/ o < t)
                   => ListOf(alloc', mem', o) = ListOf(alloc, mem, o)

(* C20: with free_lists[orderFor(s)] empty allocate splits a block of the
   smallest larger order whose list is not empty and leaves the lists above
   that order and below orderFor(s) as they were; with free_lists[orderFor(s)]
   not empty it takes that list's head and splits nothing. *)
C20_SmallestSufficientBlock ==
    [][(MallocStep /\ pc' = "ready" /\ last'.addr # NULL)
        => BestFitTaken(OrderFor(last'.len))]_vars

(* the same for the sizes that are a block size *)
C20_PowerOfTwoSizes ==
    [][(MallocStep /\ pc' = "ready" /\ last'.addr # NULL
            /\ last'.len = BlockSize(OrderFor(last'.len)))
        => BestFitTaken(OrderFor(last'.len))]_vars

(* the block of order o that holds address *)
BlockAt(address, o) ==
    alloc.base + ((address - alloc.base) \div BlockSize(o)) * BlockSize(o)

(* buddy_malloc returned a block of order last'.order cut from the block
   last'.blk of the higher order last'.from *)
SplitStep ==
    /\ MallocStep
    /\ pc' = "ready"
    /\ last'.addr # NULL
    /\ last'.from > last'.order

(* the blocks a split left on the free list of order o *)
NewFree(o) == FreeSet(alloc', mem', o) \ FreeSet(alloc, mem, o)

Inside(a1, n1, a2, n2) == a2 <= a1 /\ a1 + n1 <= a2 + n2

(* C21: an allocation of order t cut from a free block B of order i > t takes
   B off free_lists[i], marks B and the blocks split on the way as split, and
   leaves one new free block with state free at each order t .. i-1; these
   and the returned block are disjoint pieces of B that fill it. *)
C21_SplitPartitions ==
    [][SplitStep =>
        (/\ last'.blk \notin FreeSet(alloc', mem', last'.from)
         /\ \A o \in (last'.order + 1) .. last'.from :
               NodeState(alloc',
                   get_bit_tree_index(alloc, BlockAt(last'.addr, o), o)) = 1
         /\ \A o \in last'.order .. (last'.from - 1) :
               /\ Cardinality(NewFree(o)) = 1
               /\ \A x \in NewFree(o) :
                     /\ get_state(Machine(alloc', mem'), x, o) = 0
                     /\ Inside(x, BlockSize(o), last'.blk, BlockSize(last'.from))
                     /\ Disjoint(x, BlockSize(o),
                                 last'.addr, BlockSize(last'.order))
                     /\ \A q \in last'.order .. (last'.from - 1) :
                           \A y \in NewFree(q) :
                               q # o => Disjoint(x, BlockSize(o),
                                                 y, BlockSize(q))
         /\ Inside(last'.addr, BlockSize(last'.order),
                   last'.blk, BlockSize(last'.from)))]_vars

(* block (address, o) is there as a block: on its free list, or with a node
   that reads split, allocated or reserved *)
ExistsAsBlock(address, o) ==
    \/ <<o, address>> \in FreeEntries
    \/ get_state(Machine(alloc, mem), address, o) # 0

(* C22: every allocated or free-listed block below MAX_ORDER has all of its
   ancestors in state split, both children of every split node exist as
   blocks, and a buddy whose state a release would read as free is a member
   of the free list of its order. *)
C22_TreeConsistent ==
    pc = "ready" =>
        /\ \A e \in FreeEntries \cup AllocatedBlocks :
              \A o \in (e[1] + 1) .. MAX_ORDER :
                  get_state(Machine(alloc, mem), BlockAt(e[2], o), o) = 1
        /\ \A n \in NodeIdx :
              (NodeState(alloc, n) = 1 /\ NodeOrder(n) > 0) =>
                  /\ ExistsAsBlock(NodeAddr(alloc, n), NodeOrder(n) - 1)
                  /\ ExistsAsBlock(NodeAddr(alloc, n)
                                       + BlockSize(NodeOrder(n) - 1),
                                   NodeOrder(n) - 1)
        /\ \A b \in live :
              (/\ get_order(b.len) < MAX_ORDER
               /\ get_state(Machine(alloc, mem),
                            buddy_of(alloc, b.addr, get_order(b.len)),
                            get_order(b.len)) = 0)
              => buddy_of(alloc, b.addr, get_order(b.len))
                     \in FreeSet(alloc, mem, get_order(b.len))

(* the nodes that read reserved *)
ReservedNow == {n \in NodeIdx : NodeState(alloc, n) = 3}

(* a buddy_malloc or buddy_free call that returned *)
CallStep == (MallocStep \/ FreeStep) /\ pc' = "ready"

(* C23: no allocate or release makes a node reserved, a reserved node stays
   reserved, and its block is never on a free list, never returned by
   allocate and never inside a merged free block. *)
C23_ReservedTerminal ==
    [][CallStep =>
        (/\ ReservedNow' = ReservedNow
         /\ \A n \in ReservedNow :
               /\ <<NodeOrder(n), NodeAddr(alloc, n)>> \notin FreeEntries'
               /\ (last'.op = "malloc" /\ last'.addr # NULL)
                      => Disjoint(last'.addr, BlockSize(last'.order),
                                  NodeAddr(alloc, n), BlockSize(NodeOrder(n)))
               /\ last'.op = "free"
                      => FreeOver(NodeAddr(alloc, n), NodeOrder(n))' = {})]_vars

(* the part about the node states alone *)
C23_ReservedStays ==
    [][CallStep => ReservedNow' = ReservedNow]_vars

(* the changes of state the block state machine has *)
BlockMachine == {<<0, 1>>, <<0, 2>>, <<2, 0>>, <<1, 0>>}

(* the nodes on the path of the latest call: the block operated on, its
   ancestors up to the block that was split or up to MAX_ORDER, and the
   buddies of these *)
PathNodes(c) ==
    {get_bit_tree_index(alloc, BlockAt(c.addr, o), o) :
        o \in c.order .. (IF c.op = "malloc" THEN c.from ELSE MAX_ORDER)}
    \cup
    {get_bit_tree_index(alloc, buddy_of(alloc, BlockAt(c.addr, o), o), o) :
        o \in c.order .. ((IF c.op = "malloc" THEN c.from ELSE MAX_ORDER) - 1)}

(* C24: across one allocate or release a node changes only free -> split,
   free -> allocated, allocated -> free or split -> free, and only if it is
   the node of the block operated on, of one of its ancestors or of a buddy
   on the split or merge path. *)
C24_NodeTransitions ==
    [][CallStep =>
        \A n \in NodeIdx :
            NodeState(alloc', n) # NodeState(alloc, n) =>
                /\ <<NodeState(alloc, n), NodeState(alloc', n)>> \in BlockMachine
                /\ n \in PathNodes(last')]_vars

(* the bytes of the blocks the caller holds, each counted once *)
HeldBytes == SumSizes({<<get_order(b.len), b.addr, b.len>> : b \in live})

(* C25: the block sizes of all free-list entries and of all outstanding
   allocated blocks add up to the number of bytes buddy_init placed on the
   free lists. *)
C25_Conservation ==
    pc = "ready" =>
        SumSizes(FreeEntries) + HeldBytes
            = alloc.size - (alloc.size % BlockSize(0))

(* free_lists[o] of allocator a over memory m is a finite acyclic doubly
   linked list *)
WellLinkedIn(a, m, o) ==
    LET L == ListOf(a, m, o)
        NodeOf(p) == m[(p - a.base) \div NodeBytes]
    IN  /\ a.free_lists[o] = NULL <=> L = <<>>
        /\ Len(L) = Cardinality(FreeSet(a, m, o))
        /\ L # <<>> =>
              /\ NodeOf(L[1]).prev = NULL
              /\ NodeOf(L[Len(L)]).next = NULL
        /\ \A i \in 1 .. (Len(L) - 1) : NodeOf(L[i + 1]).prev = L[i]

WellLinked(o) == WellLinkedIn(alloc, mem, o)

(* C26: every free list is a finite acyclic doubly linked list whose head has
   no prev, whose last member has no next and whose links agree in both
   directions, and no block is twice in one list or in two lists. *)
C26_ListsWellFormed ==
    pc = "ready" =>
        /\ \A o \in 0 .. MAX_ORDER : WellLinked(o)
        /\ \A o \in 0 .. MAX_ORDER, q \in 0 .. MAX_ORDER :
              o # q => FreeSet(alloc, mem, o) \cap FreeSet(alloc, mem, q) = {}

(* every free_list_remove of buddy_free's merge loop, started in machine M,
   is given a member of the list of the order passed to it *)
RECURSIVE merge_removes_members(_, _, _, _, _)
merge_removes_members(M, address, buddy_address, order, g) ==
    IF M.crashed \/ order >= MAX_ORDER THEN TRUE
    ELSE
        LET M3 == set_state(
                      free_list_remove(set_state(M, address, order, 0),
                                       buddy_address, order, g),
                      address, order + 1, 0)
            next_buddy == buddy_of(M.alloc, address, order + 1)
        IN  /\ buddy_address \in FreeSet(M.alloc, M.mem, order)
            /\ get_state(M3, next_buddy, order + 1) = 0
                  => merge_removes_members(M3, address, next_buddy,
                                           order + 1, g)

(* the part of C26 about the removes a release issues *)
C26_RemovesMembers ==
    pc = "ready" =>
        \A b \in live :
            BuddyStateSeen(b.addr, b.len) = 0 =>
                merge_removes_members(Machine(alloc, mem), b.addr,
                    buddy_of(alloc, b.addr, get_order(b.len)),
                    get_order(b.len), NULL)

(* the tracked state of (address, o) after the step *)
StateAfter(address, o) == get_state(Machine(alloc', mem'), address, o)

(* the append that ends a release put last'.addr at the head of list o, in
   front of the list's previous members, and its node reads free *)
InsertedFree(o) ==
    /\ alloc'.free_lists[o] = last'.addr
    /\ ListOf(alloc', mem', o) = <<last'.addr>> \o ListOf(alloc, mem, o)
    /\ StateAfter(last'.addr, o) = 0

(* C27: an insert makes the block the head of its order's free list with the
   previous members behind it in their order, and the state of the block
   reads free right after it: for the blocks buddy_init appends, for the
   halves a split appends, and for the block a release appends. *)
C27_InsertSetsFree ==
    [][/\ (InitStep /\ pc' = "ready")
            => \A o \in 0 .. MAX_ORDER :
                   \A x \in FreeSet(alloc', mem', o) : StateAfter(x, o) = 0
       /\ SplitStep
            => \A o \in last'.order .. (last'.from - 1) :
                   \A x \in NewFree(o) : StateAfter(x, o) = 0
       /\ (FreeStep /\ pc' = "ready")
            => \E o \in last'.order .. MAX_ORDER : InsertedFree(o)]_vars

(* the free lists are the lists C26 describes *)
ListsProper ==
    /\ \A o \in 0 .. MAX_ORDER : WellLinked(o)
    /\ \A o \in 0 .. MAX_ORDER, q \in 0 .. MAX_ORDER :
          o # q => FreeSet(alloc, mem, o) \cap FreeSet(alloc, mem, q) = {}

(* what C28 states of the machine R that free_list_remove(a, o) leaves *)
RemoveKeeps(R, a, o) ==
    /\ ~R.crashed
    /\ ListOf(R.alloc, R.mem, o)
          = SelectSeq(ListOf(alloc, mem, o), LAMBDA x : x # a)
    /\ WellLinkedIn(R.alloc, R.mem, o)
    /\ \A q \in 0 .. MAX_ORDER :
          q # o => ListOf(R.alloc, R.mem, q) = ListOf(alloc, mem, q)
    /\ \A n \in NodeIdx : NodeState(R.alloc, n) = NodeState(alloc, n)

(* C28: free_list_remove of a member of free_lists[o], wherever it sits,
   leaves the list with its other members in their order, with consistent
   links and head, and changes no other list and no tree state. *)
C28_RemoveFrame ==
    (pc = "ready" /\ ListsProper) =>
        \A o \in 0 .. MAX_ORDER :
            \A a \in FreeSet(alloc, mem, o) :
                \A g \in Reads :
                    RemoveKeeps(free_list_remove(Machine(alloc, mem), a, o, g),
                                a, o)

(* some free list has a head, a middle member and a tail to remove *)
C28_Witness ==
    /\ pc = "ready"
    /\ ListsProper
    /\ \E o \in 0 .. MAX_ORDER : Len(ListOf(alloc, mem, o)) >= 3
    /\ \E o \in 0 .. MAX_ORDER : Len(ListOf(alloc, mem, o)) = 1

(* what C29 states of the block (a, o) and its buddy b *)
BuddyPair(a, o, b) ==
    /\ buddy_of(alloc, b, o) = a
    /\ (b - a = BlockSize(o) \/ a - b = BlockSize(o))
    /\ (b - alloc.base) % BlockSize(o) = 0
    /\ BlockAt(a, o + 1) = BlockAt(b, o + 1)
    /\ BlockAt(a, o + 1) \in {a, b}
    /\ o > 0 => buddy_of(alloc, a, o - 1) = a + BlockSize(o - 1)

(* C29: for every block aligned to its size, the buddy of the buddy is the
   block, the two differ by the block size and are the two halves of one
   aligned parent, and the second half that a split of the block computes is
   the buddy of its first half at the order below. *)
C29_BuddyInvolution ==
    pc = "ready" =>
        \A n \in NodeIdx :
            BuddyPair(NodeAddr(alloc, n), NodeOrder(n),
                      buddy_of(alloc, NodeAddr(alloc, n), NodeOrder(n)))

(* a split of an aligned block has handed out the second half it computed *)
C29_Witness ==
    /\ pc = "ready"
    /\ last.op = "malloc"
    /\ last.addr # NULL
    /\ last.from > last.order
    /\ (last.blk - alloc.base) % BlockSize(last.from) = 0
    /\ last.addr # BlockAt(last.addr, last.order + 1)
    /\ last.addr = buddy_of(alloc, BlockAt(last.addr, last.order + 1),
                            last.order)

(* what C30 states of the machine W that set_state(a, o, st) leaves, for the
   node n of block (a, o) *)
WriteThenRead(W, n, st) ==
    /\ get_state(W, NodeAddr(alloc, n), NodeOrder(n)) = st
    /\ \A k \in NodeIdx \ {n} :
          get_state(W, NodeAddr(alloc, k), NodeOrder(k))
              = get_state(Machine(alloc, mem), NodeAddr(alloc, k), NodeOrder(k))

(* C30: set_state followed by get_state of the same block gives the state
   written, for each of the four states, and the state get_state reads for
   every other node is what it was before the write. *)
C30_StateRoundTrip ==
    pc = "ready" =>
        \A n \in NodeIdx :
            \A st \in 0 .. 3 :
                WriteThenRead(set_state(Machine(alloc, mem), NodeAddr(alloc, n),
                                        NodeOrder(n), st),
                              n, st)

(* the tree holds free, split and allocated nodes together *)
C30_Witness ==
    /\ pc = "ready"
    /\ \E n \in NodeIdx : NodeState(alloc, n) = 0
    /\ \E n \in NodeIdx : NodeState(alloc, n) = 1
    /\ \E n \in NodeIdx : NodeState(alloc, n) = 2

(* (address, o) is a block of the tree: aligned to its size from base and
   inside the 2^MEM_BLOCK_LOG2 bytes the tree maps *)
InTree(address, o) ==
    /\ o \in 0 .. MAX_ORDER
    /\ address >= alloc.base
    /\ (address - alloc.base) % BlockSize(o) = 0
    /\ address - alloc.base + BlockSize(o) <= Pow2(MEM_BLOCK_LOG2)

(* the node index the code computes for the block of node n *)
IndexOf(n) == get_bit_tree_index(alloc, NodeAddr(alloc, n), NodeOrder(n))

(* the word get_state and set_state address for node index i is one of the
   TREE_WORDS words of bit_tree *)
FieldInArray(i) == i \div 16 < TREE_WORDS

(* different blocks of the tree have different node indices *)
C31_IndexDistinct ==
    pc = "ready" =>
        \A n \in NodeIdx, k \in NodeIdx :
            /\ InTree(NodeAddr(alloc, n), NodeOrder(n))
            /\ IndexOf(n) = IndexOf(k) => n = k

(* the blocks whose state a release of an outstanding block reads first are
   blocks of the tree *)
C31_AccessesInTree ==
    pc = "ready" =>
        \A b \in live :
            /\ InTree(b.addr, get_order(b.len))
            /\ InTree(buddy_of(alloc, b.addr, get_order(b.len)),
                      get_order(b.len))

(* C31: the blocks of the tree have pairwise different node indices, the
   two-bit field of each lies inside the TREE_WORDS words of bit_tree, and the
   states that the calls read and write are states of these blocks. *)
C31_NodeFieldsInArray ==
    pc = "ready" =>
        /\ \A n \in NodeIdx, k \in NodeIdx : IndexOf(n) = IndexOf(k) => n = k
        /\ \A n \in NodeIdx : FieldInArray(IndexOf(n))
        /\ \A b \in live :
              InTree(buddy_of(alloc, b.addr, get_order(b.len)),
                     get_order(b.len))

====
